---------------------------- MODULE Spec2Model ----------------------------
(***************************************************************************)
(* Model of "Bid Tracking Tools/BidTools.py": the folder-name codec, the   *)
(* header normaliser, the row matcher, the lock-aware workbook context and  *)
(* the two reconciliation passes (sync_bid_workbook, update_bid_status).    *)
(*                                                                         *)
(* Text is a sequence of one-character strings, so that the regular         *)
(* expressions of the source (sanitize, split, strip, leading digits) are   *)
(* computed character by character.                                         *)
(***************************************************************************)
EXTENDS Integers, Sequences, FiniteSets, TLC

VARIABLES
    \* ---- codec (build_bid_folder_name / parse_bid_folder_name)
    fields, folder_name, info, codec_pc,
    \* ---- get_next_bid_number
    names, next_result, next_pc,
    \* ---- ensure_headers on its own
    worksheet, headers, headers_pc,
    \* ---- the bid root, the workbook file and its side-copies, the other
    \* ---- process's lock, and the pass in progress
    bid_root,        \* the names of the directories under the bid root
    workbook_file,   \* the file at workbook_path
    pending_files,   \* the "... - Pending Update <stamp>" files, by stamp
    locked,          \* another process holds the workbook file exclusively
    clock,           \* the latest time read by get_pending_save_path
    pc,              \* "idle", "closing" (body done, save to come), "done"
    op,              \* "sync" or "update": the pass in progress
    inputs,          \* what the operator typed for update_bid_status
    context,         \* the ExcelContext of the pass
    run,             \* what the pass found at open and did in its body
    last,            \* the outcome of the latest finished pass
    prev,            \* the outcome of the pass before it
    runs             \* the number of passes started

codecVars == <<fields, folder_name, info, codec_pc>>
nextVars == <<names, next_result, next_pc>>
headerVars == <<worksheet, headers, headers_pc>>
storeVars ==
    <<bid_root, workbook_file, pending_files, locked, clock, pc, op, inputs, context,
      run, last, prev, runs>>
vars == <<codecVars, nextVars, headerVars, storeVars>>

-----------------------------------------------------------------------------
(* Characters *)

\* Python's \s for str patterns (ASCII part) and the set str.strip() removes.
Whitespace == {" ", "\t", "\n", "\r", "\f"}

\* The class [\\/:*?"<>|] of sanitize_name.
IllegalChars == {"\\", "/", ":", "*", "?", "\"", "<", ">", "|"}

Digits == {"0", "1", "2", "3", "4", "5", "6", "7", "8", "9"}

Letters ==
    {"a","b","c","d","e","f","g","h","i","j","k","l","m",
     "n","o","p","q","r","s","t","u","v","w","x","y","z",
     "A","B","C","D","E","F","G","H","I","J","K","L","M",
     "N","O","P","Q","R","S","T","U","V","W","X","Y","Z"}

\* \w of the re module: what \b looks at on either side.
WordChars == Letters \cup Digits \cup {"_"}

IsSpace(c) == c \in Whitespace

\* The characters of the model in code-point order (sorted() compares names
\* by code point).
CharOrder ==
    <<"\t", "\n", "\f", "\r", " ", "\"", "#", "*", "-", "/",
      "0", "1", "2", "3", "4", "5", "6", "7", "8", "9",
      ":", "<", ">", "?",
      "A","B","C","D","E","F","G","H","I","J","K","L","M",
      "N","O","P","Q","R","S","T","U","V","W","X","Y","Z",
      "\\", "_",
      "a","b","c","d","e","f","g","h","i","j","k","l","m",
      "n","o","p","q","r","s","t","u","v","w","x","y","z",
      "|">>

CodePoints ==
    [c \in {CharOrder[i] : i \in 1..Len(CharOrder)} |->
        CHOOSE i \in 1..Len(CharOrder) : CharOrder[i] = c]

\* ord(c), up to the characters left out.
CodePoint(c) == CodePoints[c]

DigitValue(c) == CodePoint(c) - CodePoint("0")

DigitChar(d) == CharOrder[CodePoint("0") + d]

Max(S) == CHOOSE x \in S : \A y \in S : y <= x

-----------------------------------------------------------------------------
(* sanitize_name *)

\* re.sub(r"[\\/:*?\"<>|]", " ", value)
ReplaceIllegal(s) == [i \in 1..Len(s) |-> IF s[i] \in IllegalChars THEN " " ELSE s[i]]

RECURSIVE DropLeadingSpace(_)
DropLeadingSpace(s) ==
    IF s = <<>> THEN <<>>
    ELSE IF IsSpace(Head(s)) THEN DropLeadingSpace(Tail(s))
    ELSE s

\* re.sub(r"\s+", " ", value): every maximal run of whitespace becomes one space.
RECURSIVE CollapseSpace(_)
CollapseSpace(s) ==
    IF s = <<>> THEN <<>>
    ELSE IF IsSpace(Head(s)) THEN <<" ">> \o CollapseSpace(DropLeadingSpace(Tail(s)))
    ELSE <<Head(s)>> \o CollapseSpace(Tail(s))

RECURSIVE DropTrailingSpace(_)
DropTrailingSpace(s) ==
    IF s = <<>> THEN <<>>
    ELSE IF IsSpace(s[Len(s)]) THEN DropTrailingSpace(SubSeq(s, 1, Len(s) - 1))
    ELSE s

\* str.strip()
Strip(s) == DropTrailingSpace(DropLeadingSpace(s))

sanitize_name(value) == Strip(CollapseSpace(ReplaceIllegal(value)))

-----------------------------------------------------------------------------
(* build_bid_folder_name *)

\* f"{bid_number}": the decimal digits of a non-negative int.
RECURSIVE IntToStr(_)
IntToStr(n) ==
    IF n < 10 THEN <<DigitChar(n)>>
    ELSE IntToStr(n \div 10) \o <<DigitChar(n % 10)>>

Joiner == <<" ", "-", " ">>

build_bid_folder_name(bid_number, initials, bid_date, customer, bid_name) ==
    sanitize_name(IntToStr(bid_number) \o Joiner \o initials \o Joiner \o bid_date
                  \o Joiner \o customer \o Joiner \o bid_name)

-----------------------------------------------------------------------------
(* parse_bid_folder_name *)

\* maxsplit of the re.split call.
MaxSplit == 4

\* Whether the pattern \s-\s matches at the head of s.
SepAtHead(s) == Len(s) >= 3 /\ IsSpace(s[1]) /\ s[2] = "-" /\ IsSpace(s[3])

\* re.split(r"\s-\s", s, maxsplit=n): leftmost non-overlapping matches, at most
\* n of them; cur is the part being collected.
RECURSIVE SplitFrom(_, _, _)
SplitFrom(s, cur, n) ==
    IF s = <<>> THEN <<cur>>
    ELSE IF n > 0 /\ SepAtHead(s)
         THEN <<cur>> \o SplitFrom(SubSeq(s, 4, Len(s)), <<>>, n - 1)
    ELSE SplitFrom(Tail(s), Append(cur, Head(s)), n)

SplitOffByOne(s) == SplitFrom(s, <<>>, MaxSplit - 1)

SplitSeparator(s) == SplitFrom(s, <<>>, MaxSplit)

\* The None result, with the record's shape.
NoInfo == [ok |-> FALSE, bid_number |-> <<>>, initials |-> <<>>, bid_date |-> <<>>,
           customer |-> <<>>, bid_name |-> <<>>, folder |-> <<>>]

parse_bid_folder_name(name) ==
    LET parts == SplitSeparator(name)
    IN  IF Len(parts) < 5 THEN NoInfo
        ELSE [ok |-> TRUE,
              bid_number |-> Strip(parts[1]),
              initials |-> Strip(parts[2]),
              bid_date |-> Strip(parts[3]),
              customer |-> Strip(parts[4]),
              bid_name |-> Strip(parts[5]),
              folder |-> name]

-----------------------------------------------------------------------------
(* get_bid_folders, get_next_bid_number *)

\* a < b as Python compares str: by code point, a proper prefix first.
RECURSIVE NameLess(_, _)
NameLess(a, b) ==
    IF b = <<>> THEN FALSE
    ELSE IF a = <<>> THEN TRUE
    ELSE IF Head(a) = Head(b) THEN NameLess(Tail(a), Tail(b))
    ELSE CodePoint(Head(a)) < CodePoint(Head(b))

\* sorted(..., key=lambda p: p.name) over the directories of the bid root.
RECURSIVE get_bid_folders(_)
get_bid_folders(root) ==
    IF root = {} THEN <<>>
    ELSE LET first == CHOOSE x \in root : \A y \in root \ {x} : NameLess(x, y)
         IN  <<first>> \o get_bid_folders(root \ {first})

RECURSIVE TakeDigits(_)
TakeDigits(s) ==
    IF s = <<>> \/ Head(s) \notin Digits THEN <<>>
    ELSE <<Head(s)>> \o TakeDigits(Tail(s))

\* int(): the value of a digit string.
RECURSIVE StrToInt(_)
StrToInt(ds) ==
    IF ds = <<>> THEN 0
    ELSE 10 * StrToInt(SubSeq(ds, 1, Len(ds) - 1)) + DigitValue(ds[Len(ds)])

\* re.match(r"^\s*(\d+)\b", name): leading whitespace, then the longest digit
\* run, which must end at a word boundary (a shorter run ends between two
\* digits, never a boundary).
LeadingNumber(name) ==
    LET rest == DropLeadingSpace(name)
        ds == TakeDigits(rest)
        after == SubSeq(rest, Len(ds) + 1, Len(rest))
    IN  IF ds # <<>> /\ (after = <<>> \/ Head(after) \notin WordChars)
        THEN [match |-> TRUE, number |-> StrToInt(ds)]
        ELSE [match |-> FALSE, number |-> 0]

RECURSIVE MaxBidNumber(_, _)
MaxBidNumber(folders, max_value) ==
    IF folders = <<>> THEN max_value
    ELSE LET m == LeadingNumber(Head(folders))
         IN  MaxBidNumber(Tail(folders),
                          IF m.match /\ m.number > max_value THEN m.number ELSE max_value)

\* ok = FALSE is the ValueError "No existing bid-number folders found".
get_next_bid_number(root) ==
    LET max_value == MaxBidNumber(get_bid_folders(root), 0)
    IN  IF max_value = 0 THEN [ok |-> FALSE, value |-> 0]
        ELSE [ok |-> TRUE, value |-> max_value + 1]

-----------------------------------------------------------------------------
(* Worksheet: the cells that hold a value, by <<row, column>> *)

\* A cell value: text, or an int kept as its decimal digits (what str() gives).
StrCell(text) == [k |-> "str", v |-> text]
IntCell(digits) == [k |-> "int", v |-> digits]
\* cell.value of a cell nothing was written to.
NoneCell == [k |-> "none", v |-> <<>>]

EmptySheet == [p \in {} |-> NoneCell]

CellValue(ws, row, col) == IF <<row, col>> \in DOMAIN ws THEN ws[<<row, col>>] ELSE NoneCell

SetCell(ws, row, col, value) ==
    [p \in DOMAIN ws \cup {<<row, col>>} |-> IF p = <<row, col>> THEN value ELSE ws[p]]

\* str(value)
Str(value) == value.v

\* bool(value): None, "" and 0 are false.
Truthy(value) ==
    CASE value.k = "none" -> FALSE
      [] value.k = "str" -> value.v # <<>>
      [] value.k = "int" -> StrToInt(value.v) # 0

\* worksheet.max_row or 1
get_last_row(ws) == IF DOMAIN ws = {} THEN 1 ELSE Max({p[1] : p \in DOMAIN ws} \cup {1})

-----------------------------------------------------------------------------
(* ensure_headers *)

H_BidFolder == <<"B","i","d"," ","F","o","l","d","e","r">>
H_BidNumber == <<"B","i","d"," ","N","u","m","b","e","r">>
H_Estimator == <<"E","s","t","i","m","a","t","o","r">>
H_BidDueDate == <<"B","i","d"," ","D","u","e"," ","D","a","t","e">>
H_CustomerGC == <<"C","u","s","t","o","m","e","r","/","G","C">>
H_BidName == <<"B","i","d"," ","N","a","m","e">>
H_ProposalDate == <<"P","r","o","p","o","s","a","l"," ","D","a","t","e">>
H_ProposalAmount == <<"P","r","o","p","o","s","a","l"," ","A","m","o","u","n","t">>
H_BidStatus == <<"B","i","d"," ","S","t","a","t","u","s">>
H_Award == <<"A","w","a","r","d">>
L_FolderName == <<"F","o","l","d","e","r"," ","N","a","m","e">>
L_BidHash == <<"B","i","d","#">>
L_GCOwner == <<"G","C","/","O","w","n","e","r">>
L_Description == <<"D","e","s","c","r","i","p","t","i","o","n">>
L_DueDate == <<"D","u","e"," ","D","a","t","e">>
L_Status == <<"S","t","a","t","u","s">>

HEADER_DEFAULTS ==
    <<H_BidFolder, H_BidNumber, H_Estimator, H_BidDueDate, H_CustomerGC, H_BidName,
      H_ProposalDate, H_ProposalAmount, H_BidStatus>>

\* legacy_header_map.get(name, name)
LegacyCanonical(name) ==
    CASE name = L_FolderName -> H_BidFolder
      [] name = L_BidHash -> H_BidNumber
      [] name = L_GCOwner -> H_CustomerGC
      [] name = L_Description -> H_BidName
      [] name = L_DueDate -> H_BidDueDate
      [] name = L_Status -> H_BidStatus
      [] OTHER -> name

\* range(1, 31): the last column of row 1 the scan reads.
HeaderScanCols == 30

\* headers.setdefault(name, col)
SetDefault(hdrs, name, col) ==
    IF name \in DOMAIN hdrs THEN hdrs
    ELSE [n \in DOMAIN hdrs \cup {name} |-> IF n = name THEN col ELSE hdrs[n]]

\* headers[name] = col
SetHeader(hdrs, name, col) ==
    [n \in DOMAIN hdrs \cup {name} |-> IF n = name THEN col ELSE hdrs[n]]

NoHeaders == [n \in {} |-> 0]

\* The scan of row 1, columns col..HeaderScanCols: an aliased (or non-text)
\* cell is rewritten to its canonical text, the first column of each name is
\* recorded.
RECURSIVE ScanHeaders(_, _, _, _)
ScanHeaders(ws, hdrs, has_any, col) ==
    IF col > HeaderScanCols THEN [ws |-> ws, headers |-> hdrs, has_any |-> has_any]
    ELSE LET value == CellValue(ws, 1, col)
         IN  IF Truthy(value)
             THEN LET canonical == StrCell(LegacyCanonical(Str(value)))
                  IN  ScanHeaders(IF canonical # value THEN SetCell(ws, 1, col, canonical)
                                  ELSE ws,
                                  SetDefault(hdrs, canonical.v, col), TRUE, col + 1)
             ELSE ScanHeaders(ws, hdrs, has_any, col + 1)

\* for idx, header in enumerate(HEADER_DEFAULTS, start=1): cell(1, idx) = header
RECURSIVE WriteDefaults(_, _)
WriteDefaults(ws, idx) ==
    IF idx > Len(HEADER_DEFAULTS) THEN ws
    ELSE WriteDefaults(SetCell(ws, 1, idx, StrCell(HEADER_DEFAULTS[idx])), idx + 1)

\* for idx, header in enumerate(HEADER_DEFAULTS, start=1): headers[header] = idx
RECURSIVE MapDefaults(_, _)
MapDefaults(hdrs, idx) ==
    IF idx > Len(HEADER_DEFAULTS) THEN hdrs
    ELSE MapDefaults(SetHeader(hdrs, HEADER_DEFAULTS[idx], idx), idx + 1)

NeedsReorder(ws) ==
    \E idx \in 1..Len(HEADER_DEFAULTS) :
        CellValue(ws, 1, idx) # StrCell(HEADER_DEFAULTS[idx])

NoReorder(ws) == ws

\* if needs_reorder: columns 1..9 are overwritten with the canonical labels.
Reorder(ws) == IF NeedsReorder(ws) THEN WriteDefaults(ws, 1) ELSE ws

ensure_headers(ws) ==
    LET scan == ScanHeaders(ws, NoHeaders, FALSE, 1)
    IN  IF ~scan.has_any
        THEN [ws |-> WriteDefaults(scan.ws, 1), headers |-> MapDefaults(scan.headers, 1)]
        ELSE [ws |-> Reorder(scan.ws), headers |-> MapDefaults(scan.headers, 1)]

-----------------------------------------------------------------------------
(* get_cell_text, get_row_index_by_value, write_row *)

Min(S) == CHOOSE x \in S : \A y \in S : x <= y

get_cell_text(ws, row, col) ==
    IF CellValue(ws, row, col).k = "none" THEN <<>>
    ELSE Strip(Str(CellValue(ws, row, col)))

\* The rows first_row..last row whose cell in col holds target once stripped.
MatchingRows(ws, col, target, first_row) ==
    {row \in first_row..get_last_row(ws) :
        /\ CellValue(ws, row, col).k # "none"
        /\ Strip(Str(CellValue(ws, row, col))) = target}

RowIndexSkippingRowTwo(ws, col, target) ==
    IF MatchingRows(ws, col, target, 3) = {} THEN 0
    ELSE Min(MatchingRows(ws, col, target, 3))

\* 0 stands for None.
get_row_index_by_value(ws, col, target) ==
    IF MatchingRows(ws, col, target, 2) = {} THEN 0
    ELSE Min(MatchingRows(ws, col, target, 2))

write_row(ws, hdrs, row, bid_info) ==
    LET w1 == SetCell(ws, row, hdrs[H_BidFolder], StrCell(bid_info.folder))
        w2 == SetCell(w1, row, hdrs[H_BidNumber], StrCell(bid_info.bid_number))
        w3 == SetCell(w2, row, hdrs[H_Estimator], StrCell(bid_info.initials))
        w4 == SetCell(w3, row, hdrs[H_BidDueDate], StrCell(bid_info.bid_date))
        w5 == SetCell(w4, row, hdrs[H_CustomerGC], StrCell(bid_info.customer))
    IN  SetCell(w5, row, hdrs[H_BidName], StrCell(bid_info.bid_name))

-----------------------------------------------------------------------------
(* sync_bid_workbook: the body between open and close *)

LastRowNotAdvanced(last_row, is_append) == last_row

\* last_row += 1, on a true append only.
AdvanceLastRow(last_row, is_append) == IF is_append THEN last_row + 1 ELSE last_row

\* One iteration of the loop over the folders. st is the worksheet, the
\* running last_row and the log of the rows written so far.
SyncFolder(st, hdrs, name) ==
    LET bid_info == parse_bid_folder_name(name)
        by_number == get_row_index_by_value(st.ws, hdrs[H_BidNumber], bid_info.bid_number)
        found == IF by_number # 0 THEN by_number
                 ELSE get_row_index_by_value(st.ws, hdrs[H_BidFolder], bid_info.folder)
        row == IF found = 0 THEN st.last_row + 1 ELSE found
    IN  IF ~bid_info.ok THEN st
        ELSE [ws |-> write_row(st.ws, hdrs, row, bid_info),
              last_row |-> AdvanceLastRow(st.last_row, found = 0),
              log |-> Append(st.log, [folder |-> name, row |-> row,
                                      appended |-> (found = 0)])]

RECURSIVE SyncFolders(_, _, _)
SyncFolders(st, hdrs, folders) ==
    IF folders = <<>> THEN st
    ELSE SyncFolders(SyncFolder(st, hdrs, Head(folders)), hdrs, Tail(folders))

\* What every update input is when the operator gave none.
NoSupplied == [status |-> <<>>, proposal_amount |-> <<>>, proposal_date |-> <<>>,
               award |-> <<>>]

\* The result of a body: the worksheet it leaves in memory, whether it raised,
\* and what it did (start: last_row before the loop; log: the rows the sync
\* wrote; row and supplied: the row the update matched and the values it had
\* to write).
SyncBodyResult(ws, root) ==
    LET eh == ensure_headers(ws)
        start == get_last_row(eh.ws)
        final == SyncFolders([ws |-> eh.ws, last_row |-> start, log |-> <<>>],
                             eh.headers, get_bid_folders(root))
    IN  [ws |-> final.ws, headers |-> eh.headers, error |-> FALSE, start |-> start,
         log |-> final.log, row |-> 0, supplied |-> NoSupplied]

-----------------------------------------------------------------------------
(* update_bid_status: the body between open and close *)

\* The answer to a prompt that is asked only when the cell is empty or the
\* operator agreed to update it.
Prompted(current, agreed, typed) ==
    IF current # <<>> THEN (IF agreed THEN typed ELSE <<>>) ELSE typed

WriteIfGiven(ws, hdrs, row, name, text) ==
    IF text # <<>> /\ name \in DOMAIN hdrs THEN SetCell(ws, row, hdrs[name], StrCell(text))
    ELSE ws

UpdateBodyResult(ws, in) ==
    LET eh == ensure_headers(ws)
        hdrs == eh.headers
        row == get_row_index_by_value(eh.ws, hdrs[H_BidNumber], in.bid_number)
        proposal_amount ==
            IF H_ProposalAmount \in DOMAIN hdrs
            THEN Prompted(get_cell_text(eh.ws, row, hdrs[H_ProposalAmount]),
                          in.update_amount, in.proposal_amount)
            ELSE <<>>
        proposal_date ==
            IF H_ProposalDate \in DOMAIN hdrs
            THEN Prompted(get_cell_text(eh.ws, row, hdrs[H_ProposalDate]),
                          in.update_date, in.proposal_date)
            ELSE <<>>
        award == IF H_Award \in DOMAIN hdrs THEN in.award ELSE <<>>
        w1 == WriteIfGiven(eh.ws, hdrs, row, H_BidStatus, in.status)
        w2 == WriteIfGiven(w1, hdrs, row, H_ProposalAmount, proposal_amount)
        w3 == WriteIfGiven(w2, hdrs, row, H_ProposalDate, proposal_date)
        w4 == WriteIfGiven(w3, hdrs, row, H_Award, award)
    IN  IF row = 0
        THEN [ws |-> eh.ws, headers |-> hdrs, error |-> TRUE, start |-> get_last_row(eh.ws),
              log |-> <<>>, row |-> 0, supplied |-> NoSupplied]
        ELSE [ws |-> w4, headers |-> hdrs, error |-> FALSE, start |-> get_last_row(eh.ws),
              log |-> <<>>, row |-> row,
              supplied |-> [status |-> in.status, proposal_amount |-> proposal_amount,
                            proposal_date |-> proposal_date, award |-> award]]

-----------------------------------------------------------------------------
(* new_excel_context, close_excel_context *)

\* A file: whether it exists, whether it has the named worksheet, and the
\* worksheet's cells.
NoFile == [exists |-> FALSE, has_sheet |-> FALSE, ws |-> EmptySheet]
FileWithoutSheet == [exists |-> TRUE, has_sheet |-> FALSE, ws |-> EmptySheet]
FileOf(ws) == [exists |-> TRUE, has_sheet |-> TRUE, ws |-> ws]

\* pending_save_path = None
NoPath == -1

NoContext == [ws |-> EmptySheet, read_only |-> FALSE, pending_save_path |-> NoPath]

\* Whether load_workbook(path) raises PermissionError.
LoadDenied(is_locked) == is_locked

\* new_excel_context, given the time get_pending_save_path reads: the context,
\* and the side-copies after the call (shutil.copy2 to the pending path when
\* the load was denied).
new_excel_context(file, is_locked, now, pending) ==
    LET read_only == LoadDenied(is_locked)
        ws == IF file.has_sheet THEN file.ws ELSE EmptySheet
    IN  IF ~file.exists
        THEN [error |-> TRUE, context |-> NoContext, pending |-> pending]
        ELSE [error |-> FALSE,
              context |-> [ws |-> ws, read_only |-> read_only,
                           pending_save_path |-> IF read_only THEN now ELSE NoPath],
              pending |-> IF read_only THEN [pending EXCEPT ![now] = file] ELSE pending]

AlwaysWorkbookPath(ctx) == "workbook"

\* close_excel_context: the path workbook.save is given.
SaveTarget(ctx) ==
    IF ctx.read_only /\ ctx.pending_save_path # NoPath THEN "pending" ELSE "workbook"

-----------------------------------------------------------------------------
(* Bounded inputs *)

MaxFieldLen == 5
FieldChars == {"a", "-", " ", "\t", ":"}
StringsUpTo(chars, n) == UNION {[1..k -> chars] : k \in 0..n}
Fillers == {<<"M", "D">>, <<"-">>}
BidNumbers == {26001}

\* Four text fields, one of them any string of the alphabet, the others a filler.
CodecInputs ==
    {[bid_number |-> b,
      initials |-> IF p = 1 THEN s ELSE f,
      bid_date |-> IF p = 2 THEN s ELSE f,
      customer |-> IF p = 3 THEN s ELSE f,
      bid_name |-> IF p = 4 THEN s ELSE f] :
        b \in BidNumbers, p \in 1..4, s \in StringsUpTo(FieldChars, MaxFieldLen),
        f \in Fillers}

MaxNameLen == 3
MaxNames == 2
NameChars == {"0", "1", "a", " ", "-"}
\* Every set of at most MaxNames folder names.
NameSets ==
    UNION {{{pick[i] : i \in 1..k} : pick \in [1..k -> StringsUpTo(NameChars, MaxNameLen)]} :
           k \in 0..MaxNames}

\* What a body did, kept for the claims (not the worksheet, which the context
\* holds).
NoBody == [headers |-> NoHeaders, error |-> FALSE, start |-> 1, log |-> <<>>, row |-> 0,
           supplied |-> NoSupplied]

BodyNote(b) == [headers |-> b.headers, error |-> b.error, start |-> b.start, log |-> b.log,
                row |-> b.row, supplied |-> b.supplied]

NoInputs == [bid_number |-> <<>>, status |-> <<>>, update_amount |-> FALSE,
             proposal_amount |-> <<>>, update_date |-> FALSE, proposal_date |-> <<>>,
             award |-> <<>>]

NoOutcome == [op |-> "none", result |-> "none", target |-> "none", saved |-> EmptySheet,
              appended |-> 0]

MaxClock == 1
NoPending == [t \in 0..MaxClock |-> NoFile]

NoRun == [locked_at_open |-> FALSE, before |-> NoFile, pending_before |-> NoPending,
          body |-> NoBody]

IdleStore ==
    /\ bid_root = {}
    /\ workbook_file = NoFile
    /\ pending_files = NoPending
    /\ locked = FALSE
    /\ clock = 0
    /\ pc = "off"
    /\ op = "none"
    /\ inputs = NoInputs
    /\ context = NoContext
    /\ run = NoRun
    /\ last = NoOutcome
    /\ prev = NoOutcome
    /\ runs = 0

IdleCodec ==
    /\ fields = [bid_number |-> 0, initials |-> <<>>, bid_date |-> <<>>,
                 customer |-> <<>>, bid_name |-> <<>>]
    /\ folder_name = <<>>
    /\ info = NoInfo
    /\ codec_pc = "off"

IdleHeaders ==
    /\ worksheet = EmptySheet
    /\ headers = NoHeaders
    /\ headers_pc = "off"

IdleNext ==
    /\ names = {}
    /\ next_result = [ok |-> FALSE, value |-> 0]
    /\ next_pc = "off"

-----------------------------------------------------------------------------
(* Specification of the codec round trip *)

InitCodec ==
    /\ fields \in CodecInputs
    /\ folder_name = <<>>
    /\ info = NoInfo
    /\ codec_pc = "input"
    /\ IdleNext
    /\ IdleHeaders
    /\ IdleStore

Encode ==
    /\ codec_pc = "input"
    /\ folder_name' = build_bid_folder_name(fields.bid_number, fields.initials,
                                            fields.bid_date, fields.customer,
                                            fields.bid_name)
    /\ codec_pc' = "encoded"
    /\ UNCHANGED <<fields, info, nextVars, headerVars, storeVars>>

Decode ==
    /\ codec_pc = "encoded"
    /\ info' = parse_bid_folder_name(folder_name)
    /\ codec_pc' = "decoded"
    /\ UNCHANGED <<fields, folder_name, nextVars, headerVars, storeVars>>

NextCodec == Encode \/ Decode

SpecCodec == InitCodec /\ [][NextCodec]_vars

-----------------------------------------------------------------------------
(* Specification of get_next_bid_number *)

InitNextBid ==
    /\ names \in NameSets
    /\ next_result = [ok |-> FALSE, value |-> 0]
    /\ next_pc = "input"
    /\ IdleCodec
    /\ IdleHeaders
    /\ IdleStore

NextBidNumber ==
    /\ next_pc = "input"
    /\ next_result' = get_next_bid_number(names)
    /\ next_pc' = "done"
    /\ UNCHANGED <<names, codecVars, headerVars, storeVars>>

NextNextBid == NextBidNumber

SpecNextBid == InitNextBid /\ [][NextNextBid]_vars

-----------------------------------------------------------------------------
(* Specification of ensure_headers *)

MaxEdits == 2
EditCols == {1, 3, 10, HeaderScanCols}
EditValues ==
    {NoneCell, StrCell(H_Award), StrCell(L_Status), StrCell(H_BidNumber),
     IntCell(<<"2", "0", "2", "6">>), IntCell(<<"0">>)}

\* Row 1 holding the given texts in columns 1..Len(texts).
HeaderRow(texts) == [p \in {<<1, c>> : c \in 1..Len(texts)} |-> StrCell(texts[p[2]])]

LegacyHeaders ==
    <<L_FolderName, L_BidHash, H_Estimator, L_DueDate, L_GCOwner, L_Description>>

BaseRows ==
    {EmptySheet, HeaderRow(HEADER_DEFAULTS), HeaderRow(LegacyHeaders),
     HeaderRow(SubSeq(HEADER_DEFAULTS, 1, 6))}

\* A cell of row 1 set, or cleared.
EditCell(ws, col, value) ==
    IF value = NoneCell
    THEN [p \in DOMAIN ws \ {<<1, col>>} |-> ws[p]]
    ELSE SetCell(ws, 1, col, value)

RECURSIVE ApplyEdits(_, _)
ApplyEdits(ws, edits) ==
    IF edits = <<>> THEN ws
    ELSE ApplyEdits(EditCell(ws, Head(edits)[1], Head(edits)[2]), Tail(edits))

HeaderSheets ==
    {ApplyEdits(base, edits) :
        base \in BaseRows,
        edits \in UNION {[1..k -> EditCols \X EditValues] : k \in 0..MaxEdits}}

InitHeaders ==
    /\ worksheet \in HeaderSheets
    /\ headers = NoHeaders
    /\ headers_pc = "input"
    /\ IdleCodec
    /\ IdleNext
    /\ IdleStore

EnsureHeaders ==
    /\ headers_pc = "input"
    /\ LET r == ensure_headers(worksheet)
       IN  /\ worksheet' = r.ws
           /\ headers' = r.headers
    /\ headers_pc' = "done"
    /\ UNCHANGED <<codecVars, nextVars, storeVars>>

NextHeaders == EnsureHeaders

SpecHeaders == InitHeaders /\ [][NextHeaders]_vars

-----------------------------------------------------------------------------
(* The passes over the workbook, and the other process's lock *)

MaxRuns == 2
MaxUpdates == 1
MaxRows == 2

Folder5 == <<"5"," ","-"," ","M","D"," ","-"," ","0","1","-","0","2"," ","-"," ","A","c","m","e"," ","-"," ","L","o","b","b","y">>
Folder6 == <<"6"," ","-"," ","J","S"," ","-"," ","0","3","-","0","4"," ","-"," ","B","e","t","a"," ","-"," ","R","o","o","f">>
Folder5b == <<"5"," ","-"," ","J","S"," ","-"," ","0","3","-","0","4"," ","-"," ","B","e","t","a"," ","-"," ","A","n","n","e","x">>
FolderPlain == <<"P","r","o","p","o","s","a","l"," ","T","e","m","p","l","a","t","e","s">>
\* The bid roots: the undecodable template folder, and any of the bid folders.
BidRoots == {S \cup {FolderPlain} : S \in SUBSET {Folder5, Folder6, Folder5b}}

T_5 == <<"5">>
T_6 == <<"6">>
T_6sp == <<"6"," ">>
T_7 == <<"7">>
T_9 == <<"9">>
T_MD == <<"M","D">>
T_Open == <<"O","p","e","n">>
T_Won == <<"W","o","n">>
T_100 == <<"1","0","0">>
T_250 == <<"2","5","0">>
T_0102 == <<"0","1","-","0","2">>
T_Yes == <<"Y","e","s">>

\* Data rows a workbook may start with, by column: a row of folder 5 whose bid
\* number is the int 5; a row of folder 6 under another bid number; a row of
\* bid number "6 " with a proposal amount and no folder.
RowPool ==
    {(1 :> StrCell(Folder5)) @@ (2 :> IntCell(T_5)) @@ (3 :> StrCell(T_MD))
        @@ (9 :> StrCell(T_Open)),
     (1 :> StrCell(Folder6)) @@ (2 :> StrCell(T_9)),
     (2 :> StrCell(T_6sp)) @@ (8 :> StrCell(T_100))}

\* The rows placed from row 2 down, under the header row.
SheetOf(header_row, rows) ==
    LET cells == {<<i + 1, c>> : i \in 1..Len(rows), c \in 1..HeaderScanCols}
        data == {p \in cells : p[2] \in DOMAIN rows[p[1] - 1]}
    IN  [p \in DOMAIN header_row \cup data |->
            IF p[1] = 1 THEN header_row[p] ELSE rows[p[1] - 1][p[2]]]

RowLists == UNION {[1..k -> RowPool] : k \in 0..MaxRows}

\* Header rows: none, canonical, legacy, canonical with Award in column 10,
\* canonical with Award in place of Estimator.
AwardAfter == SetCell(HeaderRow(HEADER_DEFAULTS), 1, 10, StrCell(H_Award))
AwardInside == SetCell(HeaderRow(HEADER_DEFAULTS), 1, 3, StrCell(H_Award))

SyncLayouts == {EmptySheet, HeaderRow(HEADER_DEFAULTS), HeaderRow(LegacyHeaders)}
UpdateLayouts == SyncLayouts \cup {AwardAfter, AwardInside}

FilesOver(layouts) ==
    {NoFile, FileWithoutSheet} \cup {FileOf(SheetOf(h, rows)) : h \in layouts, rows \in RowLists}

UpdateInputs ==
    {in \in [bid_number : {T_5, T_6, T_7}, status : {<<>>, T_Won},
             update_amount : BOOLEAN, proposal_amount : {<<>>, T_250},
             update_date : {FALSE}, proposal_date : {<<>>, T_0102},
             award : {<<>>, T_Yes}] :
        in.proposal_amount = <<>> => ~in.update_amount}

InitStore(files, roots) ==
    /\ bid_root \in roots
    /\ workbook_file \in files
    /\ pending_files = NoPending
    /\ locked \in BOOLEAN
    /\ clock = 0
    /\ pc = "idle"
    /\ op = "none"
    /\ inputs = NoInputs
    /\ context = NoContext
    /\ run = NoRun
    /\ last = NoOutcome
    /\ prev = NoOutcome
    /\ runs = 0
    /\ IdleCodec
    /\ IdleNext
    /\ IdleHeaders

\* The start of a pass: new_excel_context, then the body up to the finally
\* clause, which works on the workbook in memory only. The time is read only
\* on the PermissionError path; it never runs backwards.
Start(o, in, max_runs) ==
    /\ pc \in {"idle", "done"}
    /\ runs < max_runs
    /\ \E now \in clock..MaxClock :
        /\ LoadDenied(locked) \/ now = clock
        /\ clock' = now
        /\ LET r == new_excel_context(workbook_file, locked, now, pending_files)
               b == IF o = "sync" THEN SyncBodyResult(r.context.ws, bid_root)
                    ELSE UpdateBodyResult(r.context.ws, in)
           IN  /\ pending_files' = r.pending
               /\ IF r.error
                  THEN /\ pc' = "done"
                       /\ context' = r.context
                       /\ run' = [locked_at_open |-> locked, before |-> workbook_file,
                                  pending_before |-> pending_files, body |-> NoBody]
                       /\ last' = [op |-> o, result |-> "FileNotFound", target |-> "none",
                                   saved |-> EmptySheet, appended |-> 0]
                       /\ prev' = last
                  ELSE /\ pc' = "closing"
                       /\ context' = [r.context EXCEPT !.ws = b.ws]
                       /\ run' = [locked_at_open |-> locked, before |-> workbook_file,
                                  pending_before |-> pending_files, body |-> BodyNote(b)]
                       /\ UNCHANGED <<last, prev>>
    /\ op' = o
    /\ inputs' = in
    /\ runs' = runs + 1
    /\ UNCHANGED <<bid_root, workbook_file, locked, codecVars, nextVars, headerVars>>

\* sync_bid_workbook up to its finally clause.
SyncStart == Start("sync", NoInputs, MaxRuns)

\* update_bid_status up to its finally clause, for every answer of the operator.
UpdateStart == \E in \in UpdateInputs : Start("update", in, MaxUpdates)

AppendCount(log) == Cardinality({i \in 1..Len(log) : log[i].appended})

\* The finally clause: close_excel_context saves the workbook, whether or not
\* the body raised. Saving over a file another process holds exclusively
\* raises PermissionError and writes nothing.
Close ==
    /\ pc = "closing"
    /\ LET target == SaveTarget(context)
           denied == target = "workbook" /\ locked
       IN  /\ pending_files' =
                IF target = "pending"
                THEN [pending_files EXCEPT ![context.pending_save_path] = FileOf(context.ws)]
                ELSE pending_files
           /\ workbook_file' =
                IF target = "workbook" /\ ~denied THEN FileOf(context.ws) ELSE workbook_file
           /\ last' = [op |-> op,
                       result |-> IF denied THEN "PermissionError"
                                  ELSE IF run.body.error THEN "NotFound" ELSE "ok",
                       target |-> IF denied THEN "none" ELSE target,
                       saved |-> context.ws,
                       appended |-> AppendCount(run.body.log)]
           /\ prev' = last
    /\ pc' = "done"
    /\ UNCHANGED <<bid_root, locked, clock, op, inputs, context, run, runs, codecVars,
                   nextVars, headerVars>>

\* The other process. Once the last pass is over its lock no longer matters.
StillRunning(max_runs) == pc # "done" \/ runs < max_runs

LockAcquire(max_runs) ==
    /\ StillRunning(max_runs)
    /\ ~locked
    /\ locked' = TRUE
    /\ UNCHANGED <<bid_root, workbook_file, pending_files, clock, pc, op, inputs, context,
                   run, last, prev, runs, codecVars, nextVars, headerVars>>

LockRelease(max_runs) ==
    /\ StillRunning(max_runs)
    /\ locked
    /\ locked' = FALSE
    /\ UNCHANGED <<bid_root, workbook_file, pending_files, clock, pc, op, inputs, context,
                   run, last, prev, runs, codecVars, nextVars, headerVars>>

InitSync == InitStore(FilesOver(SyncLayouts), BidRoots)

NextSync ==
    \/ SyncStart
    \/ Close
    \/ LockAcquire(MaxRuns)
    \/ LockRelease(MaxRuns)

SpecSync == InitSync /\ [][NextSync]_vars

InitUpdate == InitStore(FilesOver(UpdateLayouts), {{}})

NextUpdate ==
    \/ UpdateStart
    \/ Close
    \/ LockAcquire(MaxUpdates)
    \/ LockRelease(MaxUpdates)

SpecUpdate == InitUpdate /\ [][NextUpdate]_vars

-----------------------------------------------------------------------------
(* Claims about the codec *)

\* The literal " - " occurs in s.
HasLiteralSep(s) == \E i \in 1..(Len(s) - 2) : SubSeq(s, i, i + 2) = Joiner

HasIllegal(s) == \E i \in 1..Len(s) : s[i] \in IllegalChars

EndsWithSpaceDash(s) == Len(s) >= 2 /\ s[Len(s) - 1] = " " /\ s[Len(s)] = "-"

\* The five fields as text, in order.
FieldTexts(f) == <<IntToStr(f.bid_number), f.initials, f.bid_date, f.customer, f.bid_name>>

InfoTexts(r) == <<r.bid_number, r.initials, r.bid_date, r.customer, r.bid_name>>

\* The precondition of the round-trip property as the specification states it.
NoSepNoIllegal(f) ==
    \A i \in 1..5 : ~HasLiteralSep(FieldTexts(f)[i]) /\ ~HasIllegal(FieldTexts(f)[i])

NonEmptyFields(f) == \A i \in 1..5 : sanitize_name(FieldTexts(f)[i]) # <<>>

\* What the first four fields must satisfy for the joiners to be the first
\* four matches of the split.
SplitSafe(f) ==
    \A i \in 1..4 :
        /\ ~HasLiteralSep(sanitize_name(FieldTexts(f)[i]))
        /\ ~EndsWithSpaceDash(sanitize_name(FieldTexts(f)[i]))

RoundTrips ==
    /\ info.ok
    /\ \A i \in 1..5 : InfoTexts(info)[i] = sanitize_name(FieldTexts(fields)[i])

\* C8 as stated: for every 5-tuple of (non-empty) fields none of which holds
\* the literal " - " or an illegal character, decode(encode(fields)) equals
\* sanitize(fields) component-wise.  Fields that sanitize to nothing are left
\* out here, so the refutation does not rest on them.
C8_RoundTripAsStated ==
    (codec_pc = "decoded" /\ NoSepNoIllegal(fields) /\ NonEmptyFields(fields))
        => RoundTrips

\* C8 amended: the round trip holds when, in addition, every field is
\* non-empty after sanitizing and none of the first four sanitized fields
\* contains " - " or ends with " -".
C8_RoundTrip ==
    (codec_pc = "decoded" /\ NoSepNoIllegal(fields) /\ NonEmptyFields(fields)
        /\ SplitSafe(fields))
        => RoundTrips

\* A decoded name whose customer field sanitize_name really changed.
C8_Witness ==
    /\ codec_pc = "decoded"
    /\ NoSepNoIllegal(fields) /\ NonEmptyFields(fields) /\ SplitSafe(fields)
    /\ fields.customer # sanitize_name(fields.customer)
    /\ info.ok
    /\ info.customer = sanitize_name(fields.customer)

-----------------------------------------------------------------------------
(* Claims about get_next_bid_number *)

\* The integer of the leading digit run of a name, as the specification reads
\* it (leading whitespace is passed over, as the pattern does).
HasDigitRun(name) == TakeDigits(DropLeadingSpace(name)) # <<>>

DigitRunValue(name) == StrToInt(TakeDigits(DropLeadingSpace(name)))

\* C9: nextBidNumber returns max+1 over the leading digit runs of the names
\* and fails if and only if no name has a leading digit run.
C9_MaxPlusOneOrNotFound ==
    next_pc = "done" =>
        LET numbered == {n \in names : HasDigitRun(n)}
        IN  IF numbered = {} THEN ~next_result.ok
            ELSE /\ next_result.ok
                 /\ next_result.value = Max({DigitRunValue(n) : n \in numbered}) + 1

-----------------------------------------------------------------------------
(* Claims about ensure_headers *)

\* C6: after ensure_headers, row 1 columns 1..9 hold the nine canonical
\* labels in canonical order and the mapping sends each of them to its
\* canonical position.
C6_CanonicalHeaders ==
    headers_pc = "done" =>
        \A idx \in 1..Len(HEADER_DEFAULTS) :
            /\ CellValue(worksheet, 1, idx) = StrCell(HEADER_DEFAULTS[idx])
            /\ HEADER_DEFAULTS[idx] \in DOMAIN headers
            /\ headers[HEADER_DEFAULTS[idx]] = idx

\* A header row that was out of order (Bid Number in column 1) and has been
\* normalised.
C6_Witness ==
    /\ headers_pc = "done"
    /\ H_Award \in DOMAIN headers
    /\ headers[H_BidNumber] = 2
    /\ CellValue(worksheet, 1, 1) = StrCell(H_BidFolder)
    /\ CellValue(worksheet, 1, HeaderScanCols) = StrCell(H_BidStatus)

\* C10: every entry (name -> column) of the returned mapping names a column
\* whose row-1 cell holds that name, so "Award" never maps into columns 1..9.
C10_MappingMatchesSheet ==
    headers_pc = "done" =>
        \A name \in DOMAIN headers :
            CellValue(worksheet, 1, headers[name]) = StrCell(name)

-----------------------------------------------------------------------------
(* Claims about the passes *)

\* The worksheet a pass loaded: the named sheet of the file as it was at
\* open, or a fresh sheet.
LoadedSheet == IF run.before.has_sheet THEN run.before.ws ELSE EmptySheet

AppendedEntries == {i \in 1..Len(run.body.log) : run.body.log[i].appended}

\* C1: a second sync over the same folders leaves the worksheet (row count and
\* every cell) as the first left it, and, run on the first one's output,
\* appends no row.
C1_SyncTwiceIsIdempotent ==
    (pc = "done" /\ last.op = "sync" /\ last.result = "ok"
        /\ prev.op = "sync" /\ prev.result = "ok")
        => /\ last.saved = prev.saved
           /\ get_last_row(last.saved) = get_last_row(prev.saved)
           /\ prev.target = "workbook" => last.appended = 0

\* Two syncs saved to the workbook itself: the first appended rows, the second
\* matched every decodable folder to one of them.
C1_Witness ==
    /\ pc = "done"
    /\ last.op = "sync" /\ last.result = "ok" /\ last.target = "workbook"
    /\ prev.op = "sync" /\ prev.result = "ok" /\ prev.target = "workbook"
    /\ prev.appended >= 2
    /\ Len(run.body.log) >= 3
    /\ last.appended = 0

C3_NotFoundLeavesStoreUnmodified ==
    (pc = "done" /\ last.op = "update" /\ run.before.exists /\ run.body.error)
        => /\ last.result = "NotFound"
           /\ workbook_file = run.before

\* C4: no pass attempts its save on a file another process holds exclusively
\* at that moment, so no save fails because of the lock.
C4_SaveNeverMeetsLock ==
    pc = "done" => last.result # "PermissionError"

\* The worksheet the loop of a sync starts from, and the folders of the log
\* that match none of its rows, by bid number or by folder name.
StartSheet == ensure_headers(LoadedSheet).ws

UnmatchedAtStart ==
    {i \in 1..Len(run.body.log) :
        LET decoded == parse_bid_folder_name(run.body.log[i].folder)
        IN  /\ get_row_index_by_value(StartSheet, run.body.headers[H_BidNumber],
                                      decoded.bid_number) = 0
            /\ get_row_index_by_value(StartSheet, run.body.headers[H_BidFolder],
                                      decoded.folder) = 0}

\* C5 as stated: the decoded folders that match no row the worksheet had at
\* the start of the pass each get a row of their own, the k-th of them row
\* lastRow + k; no two of them share a row; and the last row grows by their
\* number.
C5_NewFoldersTakeRowsOfTheirOwn ==
    (pc = "done" /\ last.op = "sync" /\ last.result = "ok")
        => LET log == run.body.log
               start == get_last_row(StartSheet)
           IN  /\ \A i \in UnmatchedAtStart :
                    log[i].row = start + Cardinality({j \in UnmatchedAtStart : j <= i})
               /\ \A i, j \in UnmatchedAtStart : i # j => log[i].row # log[j].row
               /\ get_last_row(last.saved) = start + Cardinality(UnmatchedAtStart)

\* C5 amended: a folder is new when it matches no row of the worksheet at the
\* moment the loop reaches it, the rows appended earlier in the pass included.
\* The k-th folder so appended is written to row lastRow + k, where lastRow is
\* the last row at the start of the pass; no two appended folders share a
\* row; the last row grows by the number of appended folders; and an appended
\* row holds the bid number of its folder (all six decoded fields when no
\* later folder was matched to it).
C5_AppendsTakeSequentialRows ==
    (pc = "done" /\ last.op = "sync" /\ last.result = "ok")
        => LET log == run.body.log
               start == get_last_row(StartSheet)
           IN  /\ \A i \in AppendedEntries :
                    log[i].row = start + Cardinality({j \in AppendedEntries : j <= i})
               /\ \A i, j \in AppendedEntries : i # j => log[i].row # log[j].row
               /\ get_last_row(last.saved) = start + Cardinality(AppendedEntries)
               /\ \A i \in AppendedEntries :
                    LET decoded == parse_bid_folder_name(log[i].folder)
                    IN  /\ CellValue(last.saved, log[i].row, 2) = StrCell(decoded.bid_number)
                        /\ (\A j \in 1..Len(log) : j > i => log[j].row # log[i].row)
                            => /\ CellValue(last.saved, log[i].row, 1) = StrCell(log[i].folder)
                               /\ CellValue(last.saved, log[i].row, 3) = StrCell(decoded.initials)
                               /\ CellValue(last.saved, log[i].row, 4) = StrCell(decoded.bid_date)
                               /\ CellValue(last.saved, log[i].row, 5) = StrCell(decoded.customer)
                               /\ CellValue(last.saved, log[i].row, 6) = StrCell(decoded.bid_name)

\* Folders 5 and 6 appended to a workbook that had neither.
C5_Witness ==
    /\ pc = "done" /\ last.op = "sync" /\ last.result = "ok"
    /\ prev.op = "none"
    /\ Cardinality(AppendedEntries) >= 2
    /\ \E i, j \in AppendedEntries :
        /\ run.body.log[i].folder = Folder5
        /\ run.body.log[j].folder = Folder6
        /\ run.body.log[j].row = run.body.log[i].row + 1

\* C7: a successful update changes, among the data rows, only cells of the
\* matched row, and there only the Bid Status, Proposal Amount, Proposal Date
\* and Award cells for which a non-empty value was supplied; the six
\* folder-derived columns keep their values.
C7_UpdateTouchesOnlySuppliedCells ==
    (pc = "done" /\ last.op = "update" /\ last.result = "ok")
        => \A p \in DOMAIN LoadedSheet \cup DOMAIN last.saved :
            (p[1] >= 2 /\ CellValue(last.saved, p[1], p[2]) # CellValue(LoadedSheet, p[1], p[2]))
                => /\ p[1] = run.body.row
                   /\ \/ p[2] = 7 /\ run.body.supplied.proposal_date # <<>>
                      \/ p[2] = 8 /\ run.body.supplied.proposal_amount # <<>>
                      \/ p[2] = 9 /\ run.body.supplied.status # <<>>
                      \/ /\ p[2] > 9
                         /\ run.body.supplied.award # <<>>
                         /\ CellValue(last.saved, 1, p[2]) = StrCell(H_Award)

=============================================================================
